---- MODULE Spec2Model ----
(***************************************************************************)
(* Model of the tool functions of customer_service/tools/tools.py.         *)
(*                                                                         *)
(* One behaviour is one tool invocation by the agent runtime: the runtime  *)
(* is idle, invokes one tool with its arguments, and the tool runs step by *)
(* step until it returns a value (pc = "returned") or an exception leaves  *)
(* it (pc = "raised").  External services (ToolContext prompts, the        *)
(* compute and billing catalogs, the CRM, the mail relay) answer           *)
(* nondeterministically from small sets.                                   *)
(*                                                                         *)
(* Money is kept in micro-dollars (unitPrice.nanos / 1000) so that monthly *)
(* costs stay inside TLC's integers; the code's float arithmetic           *)
(* (nanos / 1e9 * 730) is the same product in dollars.                     *)
(***************************************************************************)
EXTENDS Integers, Sequences, FiniteSets, TLC

VARIABLES
    tool,           \* the tool function being run, "none" while the runtime is idle
    pc,             \* position inside the tool function
    error,          \* the exception that left the tool, "none" otherwise
    result,         \* the returned status ("none" until a value is returned)
    customer_id,    \* argument customer_id
    request,        \* retrieve_cart_information: local `request`
    response,       \* retrieve_cart_information: local `response`
    idx,            \* retrieve_cart_information: position of the for loop in response items
    cart_items,     \* retrieve_cart_information: local `cart_items`
    cart_subtotal,  \* retrieve_cart_information: local `cart_subtotal`
    instPages,      \* compute catalog: instance listing pages served so far
    diskPages,      \* compute catalog: disk listing pages served so far
    executed,       \* listing requests executed so far, as <<kind, page>>
    reExecuted,     \* TRUE once a listing request was executed a second time
    details,        \* update_hubspot_crm: argument details
    confirm,        \* update_hubspot_crm: local `confirm` (FALSE before the prompt)
    crmClients,     \* CRM clients created by hubspot.Client.create
    crmCalls,       \* contact update calls sent to the CRM, in order
    workload_type,  \* get_product_recommendations: local `workload_type`
    vcpu_count,     \* get_product_recommendations: local `vcpu_count`
    memory_needed,  \* get_product_recommendations: local `memory_needed`
    storage_needed, \* get_product_recommendations: local `storage_needed`
    machine_types,  \* get_product_recommendations: items of local `machine_types`
    recommendations,\* get_product_recommendations: recommendations["recommendations"]
    catalogCalls,   \* catalog listing calls executed, in order
    depth,          \* send_meeting_invitation: frames of it on the call stack
    receiver_email, \* send_meeting_invitation: local `receiver_email` of the top frame
    delivered,      \* mail relay: receivers of the messages sent, in order
    delivery_method,\* send_security_instructions: argument delivery_method
    compute_type,   \* send_security_instructions: local `compute_type`
    instructions,   \* send_security_instructions: local `instructions`
    message         \* send_security_instructions: what the returned message names

cartVars == <<request, response, idx, cart_items, cart_subtotal,
              instPages, diskPages, executed, reExecuted>>

crmVars == <<details, confirm, crmClients, crmCalls>>

recVars == <<workload_type, vcpu_count, memory_needed, storage_needed,
             machine_types, recommendations, catalogCalls>>

meetVars == <<depth, receiver_email, delivered>>

secVars == <<delivery_method, compute_type, instructions, message>>

vars == <<tool, pc, error, result, customer_id, cartVars, crmVars, recVars, meetVars,
          secVars>>

----------------------------------------------------------------------------
(* Bounds of the model *)

MaxPerPage == 2     \* resources on one listing page
MaxPages == 2       \* pages of one listing

(* Program constants *)

HoursPerMonth == 730

----------------------------------------------------------------------------
(* Values *)

NoRequest == [kind |-> "None", page |-> 0]
NoResponse == [kind |-> "None", page |-> 0, items |-> <<>>, next |-> FALSE]
NoLabel == "<missing>"

CustomerIds == {"123", "456"}
Labels == CustomerIds \cup {NoLabel}

InstanceNames == {"vm"}
MachineTypeNames == {"n2-standard-2", "e2-micro"}
DiskTypeNames == {"pd-ssd", "pd-extreme"}
DiskSizes == {100}

\* A resource URL is the sequence of its path segments.
MachineTypeUrl(t) == <<"machineTypes", t>>
DiskTypeUrl(t) == <<"diskTypes", t>>

Instances ==
    [name : InstanceNames, customer_id : Labels,
     machineType : {MachineTypeUrl(t) : t \in MachineTypeNames}]

Disks ==
    [customer_id : Labels, type : {DiskTypeUrl(t) : t \in DiskTypeNames},
     sizeGb : DiskSizes]

SeqsUpTo(S, n) == UNION {[1..k -> S] : k \in 0..n}

Resources(kind) == IF kind = "instances" THEN Instances ELSE Disks

\* The billing catalog: the unit prices (micro-dollars) of the SKUs it lists
\* for a resource name; no SKU for e2-micro and pd-extreme.
SkuPrices(resource_name) ==
    CASE resource_name = "n2-standard-2" -> <<100000>>
      [] resource_name = "pd-ssd" -> <<170000>>
      [] OTHER -> <<>>

----------------------------------------------------------------------------
(* Pure helpers of retrieve_cart_information *)

\* url.split('/')[-1]
LastSegment(url) == url[Len(url)]

\* resource.get('labels', {}).get('customer_id') == customer_id
LabelMatches_Present(resource, cid) == resource.customer_id # NoLabel

LabelMatches(resource, cid) == resource.customer_id = cid

\* price_per_hour * 730
InstanceMonthlyCost(price_per_hour) == price_per_hour * HoursPerMonth

\* price_per_gb * size_gb
DiskMonthlyCost(price_per_gb, size_gb) == price_per_gb * size_gb

InstanceCartItem(instance, monthly_cost) ==
    [product_id |-> LastSegment(instance.machineType),
     name |-> instance.name,
     quantity |-> 1,
     monthly_cost |-> monthly_cost]

\* list_next(previous_request, previous_response): None without a
\* nextPageToken in the response, else a copy of the request for that token.
\* (With a token the request handed in is never None: the first resource of
\* the page replaces `request` by a request, and so does every later one.)
ListNext(previous_request, previous_response) ==
    IF ~previous_response.next
    THEN NoRequest
    ELSE [kind |-> previous_request.kind, page |-> previous_response.page + 1]

RECURSIVE SumCosts(_)
SumCosts(items) ==
    IF items = <<>> THEN 0
    ELSE SumCosts(SubSeq(items, 1, Len(items) - 1)) + items[Len(items)].monthly_cost

----------------------------------------------------------------------------
Init ==
    /\ tool = "none"
    /\ pc = "idle"
    /\ error = "none"
    /\ result = "none"
    /\ customer_id = "none"
    /\ request = NoRequest
    /\ response = NoResponse
    /\ idx = 0
    /\ cart_items = <<>>
    /\ cart_subtotal = 0
    /\ instPages = <<>>
    /\ diskPages = <<>>
    /\ executed = {}
    /\ reExecuted = FALSE
    /\ details = "none"
    /\ confirm = FALSE
    /\ crmClients = 0
    /\ crmCalls = <<>>
    /\ workload_type = "none"
    /\ vcpu_count = "none"
    /\ memory_needed = "none"
    /\ storage_needed = "none"
    /\ machine_types = <<>>
    /\ recommendations = <<>>
    /\ catalogCalls = <<>>
    /\ depth = 0
    /\ receiver_email = "none"
    /\ delivered = <<>>
    /\ delivery_method = "none"
    /\ compute_type = "none"
    /\ instructions = <<>>
    /\ message = <<>>

\* An exception leaves the tool function (logged and re-raised, or uncaught).
Raise(e) ==
    /\ pc' = "raised"
    /\ error' = e

----------------------------------------------------------------------------
(* retrieve_cart_information *)

\* Lines 166-178: clients are built, the zone is asked for and the first
\* instance listing request is created.  configs is read from the top-level
\* module `config`; the attribute GOOGLE_CLOUD_PROJECT may be missing from it.
CartInvoke ==
    /\ pc = "idle"
    /\ tool' = "retrieve_cart_information"
    /\ \E cid \in CustomerIds : customer_id' = cid
    /\ \/ /\ request' = [kind |-> "instances", page |-> 1]
          /\ pc' = "while_instances"
          /\ UNCHANGED error
       \/ /\ Raise("AttributeError")
          /\ UNCHANGED request
    /\ UNCHANGED <<result, response, idx, cart_items, cart_subtotal,
                   instPages, diskPages, executed, reExecuted>>
    /\ UNCHANGED <<crmVars, recVars, meetVars, secVars>>

Served(kind) == IF kind = "instances" THEN instPages ELSE diskPages

\* Lines 179-180: `while request is not None: response = request.execute()`.
\* A page served before is served again with the same contents; a new page
\* gets its contents now.
CartExecute ==
    /\ pc = "while_instances"
    /\ request # NoRequest
    /\ \/ /\ request.page <= Len(Served(request.kind))
          /\ response' = Served(request.kind)[request.page]
          /\ UNCHANGED <<instPages, diskPages>>
          /\ pc' = "for_instances"
          /\ UNCHANGED error
       \/ /\ request.page = Len(Served(request.kind)) + 1
          /\ \E items \in SeqsUpTo(Resources(request.kind), MaxPerPage),
                next \in BOOLEAN :
                /\ next => request.page < MaxPages
                /\ response' = [kind |-> request.kind, page |-> request.page,
                                items |-> items, next |-> next]
          /\ IF request.kind = "instances"
             THEN /\ instPages' = Append(instPages, response')
                  /\ UNCHANGED diskPages
             ELSE /\ diskPages' = Append(diskPages, response')
                  /\ UNCHANGED instPages
          /\ pc' = "for_instances"
          /\ UNCHANGED error
       \/ /\ Raise("HttpError")
          /\ UNCHANGED <<response, instPages, diskPages>>
    /\ idx' = 1
    /\ executed' = executed \cup {<<request.kind, request.page>>}
    /\ reExecuted' = (reExecuted \/ <<request.kind, request.page>> \in executed)
    /\ UNCHANGED <<tool, result, customer_id, request, cart_items, cart_subtotal>>
    /\ UNCHANGED <<crmVars, recVars, meetVars, secVars>>

\* Line 202: cart_subtotal += monthly_cost
AddToSubtotal_Dropped(subtotal, monthly_cost) == subtotal

AddToSubtotal(subtotal, monthly_cost) == subtotal + monthly_cost

\* Lines 181-204: one iteration of `for instance in response.get('items', [])`.
\* The resource is whatever the executed request listed.  A resource whose
\* label differs is passed over; for a matching one the machine type is read
\* (KeyError when the resource has no machineType), its SKUs are fetched from
\* the billing catalog (the call may fail) and the first SKU is read
\* (IndexError when there is none).  Line 203-204, inside the for loop, then
\* replaces `request` by list_next(request, response).
CartForInstance ==
    /\ pc = "for_instances"
    /\ idx <= Len(response.items)
    /\ LET instance == response.items[idx]
           machine_type == LastSegment(instance.machineType)
           skus == SkuPrices(machine_type)
           monthly_cost == InstanceMonthlyCost(skus[1])
       IN  \/ /\ ~LabelMatches(instance, customer_id)
              /\ UNCHANGED <<cart_items, cart_subtotal, error>>
              /\ request' = ListNext(request, response)
              /\ idx' = idx + 1
              /\ pc' = "for_instances"
           \/ /\ LabelMatches(instance, customer_id)
              /\ "machineType" \notin DOMAIN instance
              /\ Raise("KeyError")
              /\ UNCHANGED <<cart_items, cart_subtotal, request, idx>>
           \/ /\ LabelMatches(instance, customer_id)
              /\ "machineType" \in DOMAIN instance
              /\ Raise("HttpError")
              /\ UNCHANGED <<cart_items, cart_subtotal, request, idx>>
           \/ /\ LabelMatches(instance, customer_id)
              /\ "machineType" \in DOMAIN instance
              /\ skus = <<>>
              /\ Raise("IndexError")
              /\ UNCHANGED <<cart_items, cart_subtotal, request, idx>>
           \/ /\ LabelMatches(instance, customer_id)
              /\ "machineType" \in DOMAIN instance
              /\ skus # <<>>
              /\ cart_items' = Append(cart_items, InstanceCartItem(instance, monthly_cost))
              /\ cart_subtotal' = AddToSubtotal(cart_subtotal, monthly_cost)
              /\ request' = ListNext(request, response)
              /\ idx' = idx + 1
              /\ pc' = "for_instances"
              /\ UNCHANGED error
    /\ UNCHANGED <<tool, result, customer_id, response, instPages, diskPages,
                   executed, reExecuted>>
    /\ UNCHANGED <<crmVars, recVars, meetVars, secVars>>

\* Lines 206-207, inside the while loop: the for loop is over and `request`
\* is set to a new disk listing request, which the while loop executes next.
CartForEnd ==
    /\ pc = "for_instances"
    /\ idx > Len(response.items)
    /\ request' = [kind |-> "disks", page |-> 1]
    /\ pc' = "while_instances"
    /\ UNCHANGED <<tool, error, result, customer_id, response, idx, cart_items,
                   cart_subtotal, instPages, diskPages, executed, reExecuted>>
    /\ UNCHANGED <<crmVars, recVars, meetVars, secVars>>

\* Line 208: the while loop of lines 179-207 is left when `request` is None,
\* and only then are the disk loop (208-234) and the return (236-239) run.
CartWhileExit ==
    /\ pc = "while_instances"
    /\ request = NoRequest
    /\ pc' = "while_disks"
    /\ UNCHANGED <<tool, error, result, customer_id, cartVars>>
    /\ UNCHANGED <<crmVars, recVars, meetVars, secVars>>

\* CartWhileExit is never enabled (line 207 sets `request` at the end of every
\* iteration of the loop), so it is no disjunct of Next.
InstanceLoopNeverExits == pc = "while_instances" => request # NoRequest

----------------------------------------------------------------------------
(* update_hubspot_crm *)

DetailsValues == {"appointment", "items"}

CrmContactUpdate_Unkeyed(cid, properties) ==
    [contact_id |-> "none", properties |-> properties]

CrmContactUpdate(cid, properties) == [contact_id |-> cid, properties |-> properties]

\* Lines 107-111: the call is logged; nothing else happens before the prompt.
CrmInvoke ==
    /\ pc = "idle"
    /\ tool' = "update_hubspot_crm"
    /\ \E cid \in CustomerIds : customer_id' = cid
    /\ \E d \in DetailsValues : details' = d
    /\ pc' = "get_confirmation"
    /\ UNCHANGED <<error, result, confirm, crmClients, crmCalls>>
    /\ UNCHANGED <<cartVars, recVars, meetVars, secVars>>

\* Line 119: `if not confirm`
Withheld_Inverted(c) == c

Withheld(c) == ~c

\* Lines 114-120: the confirmation is asked for; when it is withheld the
\* function returns status "cancelled".
CrmGetConfirmation ==
    /\ pc = "get_confirmation"
    /\ \E c \in BOOLEAN :
          /\ confirm' = c
          /\ IF Withheld(c)
             THEN /\ result' = "cancelled"
                  /\ pc' = "returned"
             ELSE /\ result' = result
                  /\ pc' = "create_client"
    /\ UNCHANGED <<tool, error, customer_id, details, crmClients, crmCalls>>
    /\ UNCHANGED <<cartVars, recVars, meetVars, secVars>>

\* Lines 125-126: the CRM client is created with configs.hubspot_api_key; the
\* attribute may be missing from the module `config`, and AttributeError is
\* not caught by `except hubspot.ApiException`.
CrmCreateClient ==
    /\ pc = "create_client"
    /\ \/ /\ crmClients' = crmClients + 1
          /\ pc' = "update_contact"
          /\ UNCHANGED error
       \/ /\ Raise("AttributeError")
          /\ UNCHANGED crmClients
    /\ UNCHANGED <<tool, result, customer_id, details, confirm, crmCalls>>
    /\ UNCHANGED <<cartVars, recVars, meetVars, secVars>>

\* Lines 129-141: the contact update is sent; an ApiException is logged and
\* raised again.
CrmUpdateContact ==
    /\ pc = "update_contact"
    /\ crmCalls' = Append(crmCalls, CrmContactUpdate(customer_id, details))
    /\ \/ /\ pc' = "log_details"
          /\ UNCHANGED error
       \/ Raise("ApiException")
    /\ UNCHANGED <<tool, result, customer_id, details, confirm, crmClients>>
    /\ UNCHANGED <<cartVars, recVars, meetVars, secVars>>

\* Lines 143-151: the details are logged and status "success" is returned; an
\* exception of the logging is turned into status "error".
CrmLogDetails ==
    /\ pc = "log_details"
    /\ \E status \in {"success", "error"} : result' = status
    /\ pc' = "returned"
    /\ UNCHANGED <<tool, error, customer_id, crmVars>>
    /\ UNCHANGED <<cartVars, recVars, meetVars, secVars>>

----------------------------------------------------------------------------
(* get_product_recommendations *)

MaxMachines == 3    \* machine types in the catalog listing
MaxDiskTypes == 2   \* disk types in the catalog listing

WorkloadInputs == {"web-server", "Web-Server", "data-processing", "batch"}
NumberInputs == {"4", "16", "32", "2.5", "four"}
StorageInputs == {"100", "lots"}

\* The machine types the catalog may list (memoryMb as the catalog gives it).
MachineCatalog ==
    { [name |-> "n2-standard-2", guestCpus |-> 2, memoryMb |-> 8192],
      [name |-> "n2-standard-4", guestCpus |-> 4, memoryMb |-> 16384],
      [name |-> "n2-standard-8", guestCpus |-> 8, memoryMb |-> 32768],
      [name |-> "c2-standard-4", guestCpus |-> 4, memoryMb |-> 16384],
      [name |-> "c2-standard-8", guestCpus |-> 8, memoryMb |-> 32768] }

DiskTypeCatalog == {"pd-ssd", "pd-standard"}

\* str.lower()
Lower(str) ==
    CASE str = "Web-Server" -> "web-server"
      [] str = "N2-Standard" -> "n2-standard"
      [] OTHER -> str

\* `sub in name`, on the names and substrings that occur.
Contains(name, sub) ==
    CASE sub = "n2-standard" -> name \in {"n2-standard-2", "n2-standard-4", "n2-standard-8"}
      [] sub = "c2-standard" -> name \in {"c2-standard-4", "c2-standard-8"}
      [] sub = "pd-ssd" -> name = "pd-ssd"
      [] sub = "pd-standard" -> name = "pd-standard"
      [] sub = "ssd" -> name = "pd-ssd"

\* int(str) raises ValueError unless str is an integer literal.
IntParses(str) == str \in {"4", "16", "32"}
IntOf(str) == CASE str = "4" -> 4 [] str = "16" -> 16 [] str = "32" -> 32

\* float(str) raises ValueError unless str is a number literal.  The value is
\* kept in 1/1024 GB, the unit of memoryMb, so that memoryMb/1024 compares
\* exactly.
FloatParses(str) == str \in {"4", "16", "32", "2.5"}
FloatMbOf(str) ==
    CASE str = "4" -> 4096 [] str = "16" -> 16384 [] str = "32" -> 32768
      [] str = "2.5" -> 2560

\* Lines 289-291: guestCpus <= int(vcpu_count) * 1.5 and
\* memoryMb/1024 <= float(memory_needed) * 1.5
CpuFitsWebServer(machine, vcpu) == 2 * machine.guestCpus <= 3 * IntOf(vcpu)
MemoryFitsWebServer(machine, memory) == 2 * machine.memoryMb <= 3 * FloatMbOf(memory)

\* Lines 305-307: guestCpus >= int(vcpu_count) and memoryMb/1024 >= float(memory_needed)
CpuFitsDataProcessing(machine, vcpu) == machine.guestCpus >= IntOf(vcpu)
MemoryFitsDataProcessing(machine, memory) == machine.memoryMb >= FloatMbOf(memory)

Family(workload) ==
    IF Lower(workload) = "web-server" THEN "n2-standard" ELSE "c2-standard"

CpuFits_Swapped(workload, machine, vcpu) ==
    IF Lower(workload) = "web-server"
    THEN CpuFitsDataProcessing(machine, vcpu)
    ELSE CpuFitsWebServer(machine, vcpu)

CpuFits(workload, machine, vcpu) ==
    IF Lower(workload) = "web-server"
    THEN CpuFitsWebServer(machine, vcpu)
    ELSE CpuFitsDataProcessing(machine, vcpu)

MemoryFits_Swapped(workload, machine, memory) ==
    IF Lower(workload) = "web-server"
    THEN MemoryFitsDataProcessing(machine, memory)
    ELSE MemoryFitsWebServer(machine, memory)

MemoryFits(workload, machine, memory) ==
    IF Lower(workload) = "web-server"
    THEN MemoryFitsWebServer(machine, memory)
    ELSE MemoryFitsDataProcessing(machine, memory)

\* The `if` of lines 289-291 and 305-307 raises ValueError on a machine when a
\* number it gets to does not parse: `and` evaluates int(vcpu_count) only for
\* a name of the family, and float(memory_needed) only when the vCPU test passed.
ConditionRaises(workload, machine, vcpu, memory) ==
    /\ Contains(machine.name, Family(workload))
    /\ \/ ~IntParses(vcpu)
       \/ CpuFits(workload, machine, vcpu) /\ ~FloatParses(memory)

ConditionHolds(workload, machine, vcpu, memory) ==
    /\ Contains(machine.name, Family(workload))
    /\ CpuFits(workload, machine, vcpu)
    /\ MemoryFits(workload, machine, memory)

\* Lines 292-300 and 308-316: the item appended for a machine type.
\* memory_gb is memoryMb/1024, kept in 1/1024 GB.
MachineItem(workload, machine) ==
    [product_id |-> machine.name,
     name |-> <<machine.name, "Instance">>,
     description |-> IF Lower(workload) = "web-server"
                     THEN "General-purpose instance"
                     ELSE "Compute-optimized instance",
     specs |-> [cpus |-> machine.guestCpus, memory_gb |-> machine.memoryMb]]

\* Lines 331-339: the item appended for a disk type.
DiskItem(workload, disk_name, storage) ==
    [product_id |-> disk_name,
     name |-> "Persistent Disk",
     description |-> <<"Storage optimized for", workload>>,
     specs |-> [type |-> IF Contains(disk_name, "ssd") THEN "SSD" ELSE "Standard",
                size_gb |-> storage]]

\* Lines 329-330
DiskConditionHolds_AnyWorkload(workload, disk_name) ==
    Contains(disk_name, "pd-ssd") \/ Contains(disk_name, "pd-standard")

DiskConditionHolds(workload, disk_name) ==
    \/ Contains(disk_name, "pd-ssd") /\ Lower(workload) = "data-processing"
    \/ Contains(disk_name, "pd-standard") /\ Lower(workload) = "web-server"

RECURSIVE MachineItems(_, _, _, _)
MachineItems(workload, machines, vcpu, memory) ==
    IF machines = <<>> THEN <<>>
    ELSE LET rest == MachineItems(workload, Tail(machines), vcpu, memory)
         IN  IF ConditionHolds(workload, Head(machines), vcpu, memory)
             THEN <<MachineItem(workload, Head(machines))>> \o rest
             ELSE rest

RECURSIVE DiskItems(_, _, _)
DiskItems(workload, disk_names, storage) ==
    IF disk_names = <<>> THEN <<>>
    ELSE LET rest == DiskItems(workload, Tail(disk_names), storage)
         IN  IF DiskConditionHolds(workload, Head(disk_names))
             THEN <<DiskItem(workload, Head(disk_names), storage)>> \o rest
             ELSE rest

\* Lines 255-269: the workload type, the vCPU count and the memory are asked for.
RecInvoke ==
    /\ pc = "idle"
    /\ tool' = "get_product_recommendations"
    /\ \E cid \in CustomerIds : customer_id' = cid
    /\ \E w \in WorkloadInputs : workload_type' = w
    /\ \E v \in NumberInputs : vcpu_count' = v
    /\ \E m \in NumberInputs : memory_needed' = m
    /\ pc' = "list_machine_types"
    /\ UNCHANGED <<error, result, storage_needed, machine_types, recommendations,
                   catalogCalls>>
    /\ UNCHANGED <<cartVars, crmVars, meetVars, secVars>>

\* Lines 272-282: the zone is asked for and the machine types are listed.
\* configs.GOOGLE_CLOUD_PROJECT may be missing (no call is made then); the
\* listing call may fail.
RecListMachineTypes ==
    /\ pc = "list_machine_types"
    /\ \/ /\ Raise("AttributeError")
          /\ UNCHANGED <<machine_types, catalogCalls>>
       \/ /\ catalogCalls' = Append(catalogCalls, "machineTypes")
          /\ Raise("HttpError")
          /\ UNCHANGED machine_types
       \/ /\ catalogCalls' = Append(catalogCalls, "machineTypes")
          /\ \E machines \in SeqsUpTo(MachineCatalog, MaxMachines) :
                machine_types' = machines
          /\ pc' = "filter"
          /\ UNCHANGED error
    /\ UNCHANGED <<tool, result, customer_id, workload_type, vcpu_count,
                   memory_needed, storage_needed, recommendations>>
    /\ UNCHANGED <<cartVars, crmVars, meetVars, secVars>>

\* Lines 284-316: the machine types are filtered in listing order; any other
\* workload type takes neither branch.
RecFilter ==
    /\ pc = "filter"
    /\ IF Lower(workload_type) \notin {"web-server", "data-processing"}
       THEN /\ recommendations' = <<>>
            /\ pc' = "list_disk_types"
            /\ UNCHANGED error
       ELSE IF \E i \in 1..Len(machine_types) :
                  ConditionRaises(workload_type, machine_types[i], vcpu_count, memory_needed)
       THEN /\ Raise("ValueError")
            /\ UNCHANGED recommendations
       ELSE /\ recommendations' =
                  MachineItems(workload_type, machine_types, vcpu_count, memory_needed)
            /\ pc' = "list_disk_types"
            /\ UNCHANGED error
    /\ UNCHANGED <<tool, result, customer_id, workload_type, vcpu_count,
                   memory_needed, storage_needed, machine_types, catalogCalls>>
    /\ UNCHANGED <<cartVars, crmVars, meetVars, secVars>>

\* Lines 319-341: the disk types are listed (the call may fail), the storage
\* size is asked for and passed on as entered, the disk items are appended and
\* the recommendations are returned.
RecListDiskTypes ==
    /\ pc = "list_disk_types"
    /\ catalogCalls' = Append(catalogCalls, "diskTypes")
    /\ \/ /\ Raise("HttpError")
          /\ UNCHANGED <<storage_needed, recommendations, result>>
       \/ /\ \E disk_names \in SeqsUpTo(DiskTypeCatalog, MaxDiskTypes),
                storage \in StorageInputs :
                /\ storage_needed' = storage
                /\ recommendations' =
                      recommendations \o DiskItems(workload_type, disk_names, storage)
          /\ result' = "recommendations"
          /\ pc' = "returned"
          /\ UNCHANGED error
    /\ UNCHANGED <<tool, customer_id, workload_type, vcpu_count, memory_needed,
                   machine_types>>
    /\ UNCHANGED <<cartVars, crmVars, meetVars, secVars>>

----------------------------------------------------------------------------
(* send_meeting_invitation *)

Receivers == {"a@example.com", "b@example.com"}

\* The interpreter's limit on nested calls.
MaxDepth == 3

\* The runtime calls the function.
MeetInvoke ==
    /\ pc = "idle"
    /\ tool' = "send_meeting_invitation"
    /\ depth' = 1
    /\ pc' = "compose"
    /\ UNCHANGED <<error, result, customer_id, receiver_email, delivered>>
    /\ UNCHANGED <<cartVars, crmVars, recVars, secVars>>

\* Lines 49-66: sender and password are read from configs (the attributes
\* sender_email and sender_password may be missing from the module `config`),
\* the receiver is asked for, and the message is composed.
MeetCompose ==
    /\ pc = "compose"
    /\ \/ /\ \E r \in Receivers : receiver_email' = r
          /\ pc' = "send"
          /\ UNCHANGED error
       \/ /\ Raise("AttributeError")
          /\ UNCHANGED receiver_email
    /\ UNCHANGED <<tool, result, customer_id, depth, delivered>>
    /\ UNCHANGED <<cartVars, crmVars, recVars, secVars>>

\* Lines 69-78: the SMTP session is opened, the message is sent and the session
\* is closed; connecting, logging in or sending may fail, and nothing catches it.
MeetSend ==
    /\ pc = "send"
    /\ \/ /\ delivered' = Append(delivered, receiver_email)
          /\ pc' = "call_self"
          /\ UNCHANGED error
       \/ /\ Raise("SMTPException")
          /\ UNCHANGED delivered
    /\ UNCHANGED <<tool, result, customer_id, depth, receiver_email>>
    /\ UNCHANGED <<cartVars, crmVars, recVars, secVars>>

\* Lines 80-81: the function calls itself; the new frame starts at line 49.
\* The call fails with RecursionError when the stack is full.
MeetCallSelf ==
    /\ pc = "call_self"
    /\ IF depth < MaxDepth
       THEN /\ depth' = depth + 1
            /\ pc' = "compose"
            /\ UNCHANGED error
       ELSE /\ Raise("RecursionError")
            /\ UNCHANGED depth
    /\ UNCHANGED <<tool, result, customer_id, receiver_email, delivered>>
    /\ UNCHANGED <<cartVars, crmVars, recVars, secVars>>

\* Lines 83-85: the innermost call has returned; the invitation is logged and
\* status "success" is returned to the caller.
MeetReturn ==
    /\ pc = "after_call_self"
    /\ IF depth > 1
       THEN /\ depth' = depth - 1
            /\ pc' = "after_call_self"
            /\ UNCHANGED result
       ELSE /\ result' = "success"
            /\ pc' = "returned"
            /\ UNCHANGED depth
    /\ UNCHANGED <<tool, error, customer_id, receiver_email, delivered>>
    /\ UNCHANGED <<cartVars, crmVars, recVars, secVars>>

\* MeetReturn is never enabled (no frame gets past line 80: every call either
\* calls itself again or raises), so it is no disjunct of Next.
NoFramePassesTheSelfCall == pc # "after_call_self"

----------------------------------------------------------------------------
(* send_security_instructions *)

DeliveryMethods == {"email", "sms"}
ComputeTypeInputs == {"n2-standard", "N2-Standard", "c2-standard", "e2-medium"}

\* The static instruction catalog: a base instruction set and the
\* instructions of each compute-resource type it knows.
SECURITY_INSTRUCTIONS ==
    ("base" :> <<"base-1", "base-2">>)
    @@ ("n2-standard" :> <<"n2-1">>)
    @@ ("c2-standard" :> <<"c2-1", "c2-2">>)

\* dict.get(key, [])
GetOrEmpty(dict, key) == IF key \in DOMAIN dict THEN dict[key] ELSE <<>>

\* Lines 375-379: base_instructions + specific_instructions
InstructionsFor_NoBase(type) == GetOrEmpty(SECURITY_INSTRUCTIONS, Lower(type))

InstructionsFor(type) ==
    SECURITY_INSTRUCTIONS["base"] \o GetOrEmpty(SECURITY_INSTRUCTIONS, Lower(type))

\* Lines 348-370: the call is logged and the compute engine type is asked for.
SecInvoke ==
    /\ pc = "idle"
    /\ tool' = "send_security_instructions"
    /\ \E cid \in CustomerIds : customer_id' = cid
    /\ \E d \in DeliveryMethods : delivery_method' = d
    /\ \E t \in ComputeTypeInputs : compute_type' = t
    /\ pc' = "load_instructions"
    /\ UNCHANGED <<error, result, instructions, message>>
    /\ UNCHANGED <<cartVars, crmVars, recVars, meetVars>>

\* Lines 372-391: the instructions are put together and status "success" is
\* returned with a message naming the type and the delivery method; a
\* KeyError of the lookup of 'base' is turned into status "error".
SecSend ==
    /\ pc = "load_instructions"
    /\ IF "base" \in DOMAIN SECURITY_INSTRUCTIONS
       THEN /\ instructions' = InstructionsFor(compute_type)
            /\ result' = "success"
            /\ message' = <<compute_type, delivery_method>>
       ELSE /\ result' = "error"
            /\ message' = <<"Failed to load security configuration">>
            /\ UNCHANGED instructions
    /\ pc' = "returned"
    /\ UNCHANGED <<tool, error, customer_id, delivery_method, compute_type>>
    /\ UNCHANGED <<cartVars, crmVars, recVars, meetVars>>

----------------------------------------------------------------------------
Next ==
    \/ CartInvoke
    \/ CartExecute
    \/ CartForInstance
    \/ CartForEnd
    \/ CrmInvoke
    \/ CrmGetConfirmation
    \/ CrmCreateClient
    \/ CrmUpdateContact
    \/ CrmLogDetails
    \/ RecInvoke
    \/ RecListMachineTypes
    \/ RecFilter
    \/ RecListDiskTypes
    \/ MeetInvoke
    \/ MeetCompose
    \/ MeetSend
    \/ MeetCallSelf
    \/ SecInvoke
    \/ SecSend

Spec == Init /\ [][Next]_vars

FairSpec == Spec /\ WF_vars(Next)

----------------------------------------------------------------------------
(* Properties of retrieve_cart_information *)

Finished == pc \in {"returned", "raised"}

InCart == tool = "retrieve_cart_information"

\* The resource the for loop is about to process.
AtResource == InCart /\ pc = "for_instances" /\ idx <= Len(response.items)

\* C1: at every point of building the cart, and in every cart returned,
\* subtotal is the sum of monthly_cost over the items in the cart.
C1_SubtotalIsSumOfItems == cart_subtotal = SumCosts(cart_items)

C1_Witness ==
    /\ InCart
    /\ Len(cart_items) = 2
    /\ cart_subtotal > 0

\* C2: an item enters the cart (or a cost the subtotal) only in a step that
\* processes a resource labelled with the requested customer_id, and the step
\* that processes a resource with another or no label leaves items and
\* subtotal as they are and raises nothing.
C2_OnlyMatchingResources ==
    [][ /\ (cart_items' # cart_items \/ cart_subtotal' # cart_subtotal)
            => AtResource /\ response.items[idx].customer_id = customer_id
        /\ (AtResource /\ response.items[idx].customer_id # customer_id)
            => /\ cart_items' = cart_items
               /\ cart_subtotal' = cart_subtotal
               /\ pc' # "raised"
               /\ idx' = idx + 1 ]_vars

\* A cart holding an item while the loop has passed over a resource of
\* another customer and one without label on the same page.
C2_Witness ==
    /\ InCart /\ pc = "for_instances"
    /\ Len(cart_items) >= 1
    /\ \E i \in 1..(idx - 1) :
          response.items[i].customer_id \notin {customer_id, NoLabel}

\* C3: every page of the instance listing and of the disk listing is executed
\* exactly once, the disk listing is begun when the instance listing has no
\* continuation token left, and the cart returned holds one item for every
\* matching resource of all pages (as for a single unpaginated listing).
Exhausted(pages) == pages # <<>> /\ ~pages[Len(pages)].next

RECURSIVE MatchCount(_, _)
MatchCount(pages, cid) ==
    IF pages = <<>> THEN 0
    ELSE MatchCount(SubSeq(pages, 1, Len(pages) - 1), cid)
         + Cardinality({i \in 1..Len(pages[Len(pages)].items) :
                            pages[Len(pages)].items[i].customer_id = cid})

C3_EachPageExactlyOnce ==
    InCart =>
      /\ ~reExecuted
      /\ request.kind = "disks" => Exhausted(instPages)
      /\ pc = "returned" =>
            /\ Exhausted(instPages) /\ Exhausted(diskPages)
            /\ executed = {<<"instances", p>> : p \in 1..Len(instPages)}
                          \cup {<<"disks", p>> : p \in 1..Len(diskPages)}
            /\ Len(cart_items) = MatchCount(instPages, customer_id)
                                 + MatchCount(diskPages, customer_id)

\* C4: every invocation of retrieve_cart_information eventually finishes.
C4_CartTerminates == InCart ~> Finished

\* C10: a matching resource whose type has no pricing SKU does not end the
\* invocation: the loop goes on to the next resource.
C10_MissingSkuSkipsItem ==
    [][ (/\ AtResource
         /\ response.items[idx].customer_id = customer_id
         /\ "machineType" \in DOMAIN response.items[idx]
         /\ SkuPrices(response.items[idx].machineType[2]) = <<>>
         /\ error' # "HttpError")
        => (pc' = "for_instances" /\ idx' = idx + 1 /\ cart_items' = cart_items) ]_vars


\* C12: for customer "123" with one instance labelled "123" of type
\* n2-standard-2 ($0.10 an hour) and one 100GB pd-ssd disk labelled "123"
\* ($0.17 a GB), the invocation returns a cart of those two items, the
\* instance at price * 730 and the disk at price * size, with subtotal 90.00
\* (90000000 micro-dollars).
ScenarioInstancePage ==
    [kind |-> "instances", page |-> 1, next |-> FALSE,
     items |-> <<[name |-> "vm", customer_id |-> "123",
                  machineType |-> <<"machineTypes", "n2-standard-2">>]>>]

ScenarioDiskPage ==
    [kind |-> "disks", page |-> 1, next |-> FALSE,
     items |-> <<[customer_id |-> "123", type |-> <<"diskTypes", "pd-ssd">>,
                  sizeGb |-> 100]>>]

InScenario ==
    /\ InCart /\ customer_id = "123"
    /\ instPages = <<ScenarioInstancePage>>
    /\ diskPages = <<ScenarioDiskPage>>

C12_ScenarioSubtotal ==
    (InScenario /\ Finished /\ error # "HttpError") =>
        /\ pc = "returned"
        /\ Len(cart_items) = 2
        /\ cart_items[1].monthly_cost = 100000 * 730
        /\ cart_items[2].monthly_cost = 170000 * 100
        /\ cart_subtotal = 90000000

----------------------------------------------------------------------------
(* Properties of update_hubspot_crm *)

InCrm == tool = "update_hubspot_crm"

\* C5: when the confirmation is withheld, no CRM client is created, no
\* contact update is sent, and the invocation returns status "cancelled".
ConfirmationWithheld == InCrm /\ pc # "get_confirmation" /\ ~confirm

C5_WithheldMeansCancelledAndNoCall ==
    ConfirmationWithheld =>
        /\ crmClients = 0
        /\ crmCalls = <<>>
        /\ pc = "returned"
        /\ result = "cancelled"
        /\ error = "none"

C5_Witness == ConfirmationWithheld /\ result = "cancelled"

\* C11: once the confirmation is given and the contact update has been sent,
\* the invocation ends by returning a status: "success" when the update call
\* succeeded, "error" when it failed.
C11_ConfirmedUpdateReturnsStatus ==
    (InCrm /\ confirm /\ crmCalls # <<>> /\ Finished) =>
        /\ pc = "returned"
        /\ result \in {"success", "error"}
        /\ error = "none"

\* C15: the contact update is sent at most once, only after a positive
\* confirmation, for the given customer_id with the given details; a failed
\* update is not sent again.
C15_UpdateSentAtMostOnce ==
    InCrm =>
        /\ Len(crmCalls) <= 1
        /\ crmCalls # <<>> =>
              /\ pc # "get_confirmation" /\ confirm
              /\ crmCalls[1].contact_id = customer_id
              /\ crmCalls[1].properties = details

\* The update failed and the invocation is over with the one call sent.
C15_Witness ==
    /\ InCrm /\ Finished /\ error = "ApiException"
    /\ Len(crmCalls) = 1

----------------------------------------------------------------------------
(* Properties of get_product_recommendations *)

InRec == tool = "get_product_recommendations"

\* The machine-type items among the recommendations, in order.
IsMachineItem(item) == "cpus" \in DOMAIN item.specs
MachineRecommendations == SelectSeq(recommendations, IsMachineItem)

ProductIds(items) == [i \in 1..Len(items) |-> items[i].product_id]
Names(machines) == [i \in 1..Len(machines) |-> machines[i].name]

\* The machine types have been filtered and nothing was raised by it.
FilterDone == InRec /\ (pc = "list_disk_types" \/ Len(catalogCalls) = 2)

\* C6: for workload type "web-server", every machine-type item recommended
\* has cpus <= 1.5 * requested vCPU and memory_gb <= 1.5 * requested memory
\* (memory in 1/1024 GB on both sides).
C6_WebServerUpperBound ==
    (InRec /\ Lower(workload_type) = "web-server") =>
        \A i \in 1..Len(MachineRecommendations) :
            /\ 2 * MachineRecommendations[i].specs.cpus <= 3 * IntOf(vcpu_count)
            /\ 2 * MachineRecommendations[i].specs.memory_gb
                  <= 3 * FloatMbOf(memory_needed)

\* A web-server request that returned a machine-type item and left out a
\* general-purpose machine type of the catalog.
C6_Witness ==
    /\ InRec /\ workload_type = "web-server" /\ pc = "returned"
    /\ Len(MachineRecommendations) >= 1
    /\ \E i \in 1..Len(machine_types) :
          /\ machine_types[i].name \in {"n2-standard-2", "n2-standard-4", "n2-standard-8"}
          /\ \A j \in 1..Len(recommendations) :
                recommendations[j].product_id # machine_types[i].name

\* C7: for workload type "data-processing", the machine-type items
\* recommended are exactly the c2-standard catalog entries with
\* cpus >= requested vCPU and memory_gb >= requested memory, in catalog order.
QualifiesForDataProcessing(machine) ==
    /\ machine.name \in {"c2-standard-4", "c2-standard-8"}
    /\ machine.guestCpus >= IntOf(vcpu_count)
    /\ machine.memoryMb >= FloatMbOf(memory_needed)

C7_DataProcessingExactlyQualifying ==
    (FilterDone /\ Lower(workload_type) = "data-processing") =>
        ProductIds(MachineRecommendations)
            = Names(SelectSeq(machine_types, QualifiesForDataProcessing))

\* The scenario: vcpu=4, memory=16, storage=100 against c2-standard-4,
\* c2-standard-8 and n2-standard-2 returns both c2 entries and not the n2 one.
C7_Witness ==
    /\ InRec /\ workload_type = "data-processing" /\ pc = "returned"
    /\ vcpu_count = "4" /\ memory_needed = "16" /\ storage_needed = "100"
    /\ Names(machine_types) = <<"c2-standard-4", "c2-standard-8", "n2-standard-2">>
    /\ ProductIds(MachineRecommendations) = <<"c2-standard-4", "c2-standard-8">>

\* C13 as stated: for every workload value other than "web-server" and
\* "data-processing" the recommendations are empty and nothing is raised but
\* a failure of a catalog call.
CatalogCallFailures == {"AttributeError", "HttpError"}

C13_OtherWorkloadValueIsEmpty ==
    (InRec /\ workload_type \notin {"web-server", "data-processing"}) =>
        /\ recommendations = <<>>
        /\ pc = "raised" => error \in CatalogCallFailures

\* C13, amended: for every workload value that is neither "web-server" nor
\* "data-processing" when lower-cased, the recommendations are empty (no
\* machine-type item, no disk item) and nothing is raised but a failure of a
\* catalog call.
C13_OtherWorkloadIsEmpty ==
    (InRec /\ Lower(workload_type) \notin {"web-server", "data-processing"}) =>
        /\ recommendations = <<>>
        /\ pc = "raised" => error \in CatalogCallFailures

\* Another workload, numbers that do not parse, a catalog that lists machine
\* types: an empty set is returned.
C13_Witness ==
    /\ InRec /\ workload_type = "batch" /\ pc = "returned"
    /\ vcpu_count = "four" /\ storage_needed = "lots"
    /\ Len(machine_types) = 3
    /\ recommendations = <<>>

\* C8: when the vCPU count, the memory or the storage entered is not a
\* number, the invocation ends in a validation error and no catalog listing
\* call is made.
IsNumber(str) == str \in {"4", "16", "32", "2.5", "100"}

MalformedInput ==
    /\ InRec
    /\ \/ ~IsNumber(vcpu_count)
       \/ ~IsNumber(memory_needed)
       \/ storage_needed # "none" /\ ~IsNumber(storage_needed)

C8_MalformedInputFailsBeforeAnyCall ==
    MalformedInput =>
        /\ catalogCalls = <<>>
        /\ Finished => (pc = "raised" /\ error = "ValueError")

----------------------------------------------------------------------------
(* Properties of send_meeting_invitation *)

InMeet == tool = "send_meeting_invitation"

\* C9: an invocation sends the invitation through the mail relay exactly once,
\* never invokes itself, and then returns status "success" or "error".
C9_SingleNonRecursiveSend ==
    InMeet =>
        /\ Len(delivered) <= 1
        /\ depth <= 1
        /\ Finished => (result \in {"success", "error"} /\ Len(delivered) = 1)

----------------------------------------------------------------------------
(* Properties of send_security_instructions *)

InSec == tool = "send_security_instructions"

\* C14: for a compute-resource type without entry in the instruction catalog
\* the instructions are the base instruction set alone, and the invocation
\* returns status "success" with a message naming the requested delivery
\* method, never an error.
C14_UnknownTypeFallsBackToBase ==
    (InSec /\ Finished /\ compute_type \notin {"n2-standard", "N2-Standard", "c2-standard"}) =>
        /\ pc = "returned" /\ error = "none"
        /\ result = "success"
        /\ instructions = <<"base-1", "base-2">>
        /\ message = <<compute_type, delivery_method>>

C14_Witness ==
    /\ InSec /\ pc = "returned"
    /\ compute_type = "e2-medium" /\ delivery_method = "sms"
    /\ result = "success"

====
